---- MODULE Spec2Model ----
(***************************************************************************)
(* Model of src/core/error_handling.h (pyodide): the EM_JS wrappers        *)
(* EM_JS_REF / EM_JS_NUM and the failure macros FAIL, FAIL_IF_NULL,        *)
(* FAIL_IF_MINUS_ONE, FAIL_IF_ERR_OCCURRED.                                *)
(*                                                                         *)
(* The macros only have meaning inside a native function that follows the  *)
(* "goto finally" convention, so the model runs one such function:         *)
(*                                                                         *)
(*     entry:    ret = callee(...);          (a wrapped EM_JS function or  *)
(*                                            a Python API function)       *)
(*     check:    FAIL_IF_xxx(ret);  /  FAIL();                             *)
(*     next:     <the statement after the macro>                           *)
(*     finally:  <cleanup>                                                 *)
(*               return                                                    *)
(*                                                                         *)
(* A JavaScript exception that leaves a wrapper unwinds the native frame:  *)
(* the function neither checks nor reaches its label (pc = "unwound").     *)
(*                                                                         *)
(* Notes on the DEBUG_F variant of FAIL() (lines 91-102):                  *)
(*  - as written, "goto finally" on line 101 has no semicolon, so the      *)
(*    variant does not compile; the model follows the statement sequence   *)
(*    the text spells out (asprintf; log_error; free; goto finally).       *)
(*  - asprintf's result is ignored.  The target is Emscripten (line 7),    *)
(*    whose libc leaves msg NULL when the allocation fails; log_error and  *)
(*    free then run on NULL and the goto is still executed.                *)
(***************************************************************************)
EXTENDS Integers, Sequences, FiniteSets, TLC

\* ---- bounds ------------------------------------------------------------
MaxCalls == 2      \* invocations of the native function in one run
MaxNum == 2        \* numeric statuses range over -MaxNum..MaxNum
MaxRef == 2        \* references range over NULL..MaxRef

\* ---- program constants -------------------------------------------------
NULL == 0          \* the null reference (0 at the EM_JS boundary)

Nums == (0 - MaxNum)..MaxNum
Refs == NULL..MaxRef

\* JavaScript values a body can throw, and the Error of line 50
Excs == {"e1", "e2"}
AssertionError == "Assertion error: control reached end of function without return"

\* what asprintf writes for lines 95-98; "" is what the sink sees for NULL
LocMsg == "Raised exception on line L in func F, file X"
NullMsg == ""

VARIABLES
    debug,     \* DEBUG_F defined at build time
    prog,      \* the native function: callee, its body, the macro it uses
    pc,        \* position in the native function
    ret,       \* value returned by the callee: {} before the call, else {v}
    err,       \* the interpreter's error indicator (PyErr_Occurred)
    handled,   \* number of Module.handle_js_error invocations
    exc,       \* exception propagating out of the native frame, or "none"
    log,       \* the log sink: messages delivered by log_error
    msg,       \* FAIL()'s local char* msg: "unset", NullMsg or LocMsg
    logrc,     \* status returned by the last log_error call, {} if none
    stmts,     \* statements executed after the check in this invocation
    calls      \* invocations of the native function so far

vars == <<debug, prog, pc, ret, err, handled, exc, log, msg, logrc, stmts, calls>>

\* ---- the callee's body -------------------------------------------------
Body(k, v, e) == [kind |-> k, val |-> v, e |-> e]

\* bodies of EM_JS functions: throw e / return v / run off the end
JsBodies(vals) ==
    {Body("throw", 0, e) : e \in Excs}
        \cup {Body("return", v, "none") : v \in vals}
        \cup {Body("end", 0, "none")}

\* outcomes of a Python API call: a value, or an exception raised
PyBodies(vals) ==
    {Body("return", v, "none") : v \in vals} \cup {Body("raise", 0, "none")}

RefMacros == {"FAIL_IF_NULL", "FAIL_IF_ERR_OCCURRED", "FAIL"}
NumMacros == {"FAIL_IF_MINUS_ONE", "FAIL_IF_ERR_OCCURRED", "FAIL"}

Prog(a, b, m) == [api |-> a, body |-> b, macro |-> m]

Progs ==
    {Prog("EM_JS_REF", b, m) : b \in JsBodies(Refs), m \in RefMacros}
        \cup {Prog("EM_JS_NUM", b, m) : b \in JsBodies(Nums), m \in NumMacros}
        \cup {Prog("PY_REF", b, m) : b \in PyBodies(Refs \ {NULL}), m \in RefMacros}
        \cup {Prog("PY_NUM", b, m) : b \in PyBodies(0..MaxNum), m \in NumMacros}

\* ---- results of a call -------------------------------------------------
Returned(v) == [kind |-> "return", val |-> v, e |-> "none", handoff |-> FALSE, raised |-> FALSE]
Thrown(e) == [kind |-> "throw", val |-> 0, e |-> e, handoff |-> FALSE, raised |-> FALSE]
HandedOff(v) == [kind |-> "return", val |-> v, e |-> "none", handoff |-> TRUE, raised |-> TRUE]
Raised(v) == [kind |-> "return", val |-> v, e |-> "none", handoff |-> FALSE, raised |-> TRUE]

\* ---- EM_JS wrappers ----------------------------------------------------
\* variant of EM_JS_REF with the hand-off of lines 47-48 live
EM_JS_REF_handoff(body) ==
    IF body.kind = "throw" THEN HandedOff(0)
    ELSE IF body.kind = "return" THEN Returned(body.val)
    ELSE Thrown(AssertionError)

\* variant of EM_JS_REF that returns 0 when the body runs off the end
EM_JS_REF_implicit(body) ==
    IF body.kind = "throw" THEN Thrown(body.e)
    ELSE IF body.kind = "return" THEN Returned(body.val)
    ELSE Returned(0)

\* try body catch (e) { throw e; <unreachable> } throw new Error(...)
EM_JS_REF(body) ==
    IF body.kind = "throw" THEN Thrown(body.e)
    ELSE IF body.kind = "return" THEN Returned(body.val)
    ELSE Thrown(AssertionError)

\* try body catch (e) { throw e; <unreachable> } return 0
EM_JS_NUM(body) ==
    IF body.kind = "throw" THEN Thrown(body.e)
    ELSE IF body.kind = "return" THEN Returned(body.val)
    ELSE Returned(0)

\* Python return conventions: NULL / -1 with the error indicator set
PyApiCall(api, body) ==
    IF body.kind = "raise"
    THEN Raised(IF api = "PY_REF" THEN NULL ELSE 0 - 1)
    ELSE Returned(body.val)

\* ---- log_error and FAIL() ----------------------------------------------
\* log_error(msg): emits msg to the error channel and returns a status;
\* ok = FALSE is a failing call, which emits nothing
log_error(m, ok) ==
    [sink |-> IF ok THEN Append(log, m) ELSE log,
     rc |-> IF ok THEN 0 ELSE 0 - 1]

\* asprintf(&msg, ...): the formatted text, or NULL when it fails
asprintf(fmtOk) == IF fmtOk THEN LocMsg ELSE NullMsg

\* variant of FAIL() that leaves the do-while when asprintf fails
FAIL_checked(fmtOk, logOk) ==
    IF debug
    THEN IF fmtOk
         THEN [pc |-> "finally", log |-> log_error(asprintf(fmtOk), logOk).sink,
               msg |-> asprintf(fmtOk), logrc |-> {log_error(asprintf(fmtOk), logOk).rc}]
         ELSE [pc |-> "next", log |-> log, msg |-> asprintf(fmtOk), logrc |-> logrc]
    ELSE [pc |-> "finally", log |-> log, msg |-> msg, logrc |-> logrc]

\* FAIL(): goto finally; with DEBUG_F first asprintf, log_error, free.
\* Both results are ignored by the code.
FAIL(fmtOk, logOk) ==
    IF debug
    THEN [pc |-> "finally", log |-> log_error(asprintf(fmtOk), logOk).sink,
          msg |-> asprintf(fmtOk), logrc |-> {log_error(asprintf(fmtOk), logOk).rc}]
    ELSE [pc |-> "finally", log |-> log, msg |-> msg, logrc |-> logrc]

\* ---- the conditions of the FAIL_IF_ macros -----------------------------
FAIL_IF_NULL_inverted(ref) == ref # NULL

\* if (ref == NULL) { FAIL(); }
FAIL_IF_NULL(ref) == ref = NULL

FAIL_IF_MINUS_ONE_documented(num) == num = 0 - 1

\* if (num != 0) { FAIL(); }
FAIL_IF_MINUS_ONE(num) == num # 0

\* a query that also clears the indicator (as PyErr_Fetch / PyErr_Clear do)
PyErr_Occurred_clearing == [occurred |-> err, after |-> FALSE]

\* PyErr_Occurred(): reads the indicator and leaves it alone
PyErr_Occurred == [occurred |-> err, after |-> err]

\* if (PyErr_Occurred()) { FAIL(); }
FAIL_IF_ERR_OCCURRED == PyErr_Occurred.occurred

RetVal == CHOOSE v \in ret : TRUE

\* ---- the native function ------------------------------------------------
Init ==
    /\ debug \in BOOLEAN
    /\ prog \in Progs
    /\ pc = "entry"
    /\ ret = {}
    /\ err \in BOOLEAN
    /\ handled = 0
    /\ exc = "none"
    /\ log = <<>>
    /\ msg = "unset"
    /\ logrc = {}
    /\ stmts = 0
    /\ calls = 1

\* the call returns r, or r's exception unwinds the native frame
Deliver(r) ==
    /\ IF r.kind = "throw"
       THEN pc' = "unwound" /\ exc' = r.e /\ ret' = ret
       ELSE pc' = "check" /\ exc' = exc /\ ret' = {r.val}
    /\ handled' = IF r.handoff THEN handled + 1 ELSE handled
    /\ err' = (err \/ r.raised)
    /\ UNCHANGED <<debug, prog, log, msg, logrc, stmts, calls>>

\* ret = f(...) where f was defined with EM_JS_REF
CallEmJsRef ==
    /\ pc = "entry"
    /\ prog.api = "EM_JS_REF"
    /\ Deliver(EM_JS_REF(prog.body))

\* ret = f(...) where f was defined with EM_JS_NUM
CallEmJsNum ==
    /\ pc = "entry"
    /\ prog.api = "EM_JS_NUM"
    /\ Deliver(EM_JS_NUM(prog.body))

\* ret = PySomething(...)
CallPyApi ==
    /\ pc = "entry"
    /\ prog.api \in {"PY_REF", "PY_NUM"}
    /\ Deliver(PyApiCall(prog.api, prog.body))

\* do { if (fires) { FAIL(); } } while (0)
Macro(fires, errAfter) ==
    /\ \E fmtOk \in BOOLEAN, logOk \in BOOLEAN :
          IF fires
          THEN /\ pc' = FAIL(fmtOk, logOk).pc
               /\ log' = FAIL(fmtOk, logOk).log
               /\ msg' = FAIL(fmtOk, logOk).msg
               /\ logrc' = FAIL(fmtOk, logOk).logrc
          ELSE /\ pc' = "next"
               /\ UNCHANGED <<log, msg, logrc>>
    /\ err' = errAfter
    /\ UNCHANGED <<debug, prog, ret, handled, exc, stmts, calls>>

FailIfNull ==
    /\ pc = "check"
    /\ prog.macro = "FAIL_IF_NULL"
    /\ Macro(FAIL_IF_NULL(RetVal), err)

FailIfMinusOne ==
    /\ pc = "check"
    /\ prog.macro = "FAIL_IF_MINUS_ONE"
    /\ Macro(FAIL_IF_MINUS_ONE(RetVal), err)

FailIfErrOccurred ==
    /\ pc = "check"
    /\ prog.macro = "FAIL_IF_ERR_OCCURRED"
    /\ Macro(FAIL_IF_ERR_OCCURRED, PyErr_Occurred.after)

Fail ==
    /\ pc = "check"
    /\ prog.macro = "FAIL"
    /\ Macro(TRUE, err)

\* the statement after the macro; control then falls into the label
NextStmt ==
    /\ pc = "next"
    /\ stmts' = stmts + 1
    /\ pc' = "finally"
    /\ UNCHANGED <<debug, prog, ret, err, handled, exc, log, msg, logrc, calls>>

\* finally: cleanup; return
Finally ==
    /\ pc = "finally"
    /\ pc' = "returned"
    /\ UNCHANGED <<debug, prog, ret, err, handled, exc, log, msg, logrc, stmts, calls>>

\* the function is entered again; whoever consumed the error in between
\* may have cleared the indicator
Reenter ==
    /\ pc \in {"returned", "unwound"}
    /\ calls < MaxCalls
    /\ calls' = calls + 1
    /\ prog' \in Progs
    /\ pc' = "entry"
    /\ ret' = {}
    /\ exc' = "none"
    /\ msg' = "unset"
    /\ logrc' = {}
    /\ stmts' = 0
    /\ err' \in {err, FALSE}
    /\ UNCHANGED <<debug, handled, log>>

Next ==
    \/ CallEmJsRef
    \/ CallEmJsNum
    \/ CallPyApi
    \/ FailIfNull
    \/ FailIfMinusOne
    \/ FailIfErrOccurred
    \/ Fail
    \/ NextStmt
    \/ Finally
    \/ Reenter

Spec == Init /\ [][Next]_vars

TypeOK ==
    /\ debug \in BOOLEAN
    /\ prog \in Progs
    /\ pc \in {"entry", "check", "next", "finally", "returned", "unwound"}
    /\ ret \subseteq Int /\ Cardinality(ret) <= 1
    /\ err \in BOOLEAN
    /\ handled \in 0..MaxCalls
    /\ exc \in Excs \cup {"none", AssertionError}
    /\ Len(log) <= MaxCalls
    /\ msg \in {"unset", NullMsg, LocMsg}
    /\ logrc \subseteq {0, 0 - 1}
    /\ stmts \in 0..1
    /\ calls \in 1..MaxCalls

\* ---- positions used by the properties ----------------------------------
\* the callee has been called in this invocation
Called == pc # "entry"

\* control came to the label by FAIL()'s goto
Jumped == pc \in {"finally", "returned"} /\ stmts = 0

\* control went on to the statement after the macro
Continued == pc = "next" \/ (pc \in {"finally", "returned"} /\ stmts = 1)

\* the macro at the check site performs FAIL() in the current state
MacroFires ==
    CASE prog.macro = "FAIL_IF_NULL" -> FAIL_IF_NULL(RetVal)
      [] prog.macro = "FAIL_IF_MINUS_ONE" -> FAIL_IF_MINUS_ONE(RetVal)
      [] prog.macro = "FAIL_IF_ERR_OCCURRED" -> FAIL_IF_ERR_OCCURRED
      [] OTHER -> TRUE

EmJs == {"EM_JS_REF", "EM_JS_NUM"}

\* ---- C1 ------------------------------------------------------------------
\* C1: when the body of an EM_JS_REF function throws, the wrapper catches
\* the exception, hands it to Module.handle_js_error (an error becomes
\* pending) and returns 0; no exception escapes.
C1_RefThrowHandedOff ==
    (prog.api = "EM_JS_REF" /\ prog.body.kind = "throw" /\ Called)
        => (exc = "none" /\ handled >= 1 /\ err /\ ret = {0})

\* ---- C2 ------------------------------------------------------------------
\* C2: an EM_JS_NUM function returns -1 when its body throws and 0 when its
\* body runs to completion without an explicit return.
C2_NumThrowMinusOne ==
    (prog.api = "EM_JS_NUM" /\ Called)
        => /\ prog.body.kind = "throw" => (ret = {0 - 1} /\ exc = "none")
           /\ prog.body.kind = "end" => (ret = {0} /\ exc = "none")

\* ---- C3 ------------------------------------------------------------------
\* C3 (as claimed): in both wrappers a body that completes without an
\* explicit return traps with the assertion error and returns nothing.
C3_BothTrapAtEnd ==
    (prog.api \in EmJs /\ prog.body.kind = "end" /\ Called)
        => (pc = "unwound" /\ exc = AssertionError /\ ret = {})

\* C3 (amended): in EM_JS_REF a body that completes without an explicit
\* return traps with the assertion error and returns nothing; in EM_JS_NUM
\* such a body makes the wrapped function return 0.
C3_RefTrapsNumReturnsZero ==
    (prog.body.kind = "end" /\ Called)
        => /\ prog.api = "EM_JS_REF"
                => (pc = "unwound" /\ exc = AssertionError /\ ret = {})
           /\ prog.api = "EM_JS_NUM"
                => (pc # "unwound" /\ exc = "none" /\ ret = {0})

C3_Witness ==
    /\ prog.api = "EM_JS_REF"
    /\ prog.body.kind = "end"
    /\ pc = "unwound"
    /\ exc = AssertionError

\* ---- C4 ------------------------------------------------------------------
\* C4: FAIL_IF_NULL(value) goes to the cleanup label iff value = NULL; for a
\* non-NULL value control continues with the next statement and no other
\* variable changes.
C4_FailIfNull ==
    [][(pc = "check" /\ prog.macro = "FAIL_IF_NULL" /\ pc' # pc)
          => /\ (pc' = "finally") <=> (ret = {NULL})
             /\ ret # {NULL}
                  => /\ pc' = "next"
                     /\ UNCHANGED <<debug, prog, ret, err, handled, exc, log,
                                    msg, logrc, stmts, calls>>]_vars

C4_Witness ==
    /\ prog.macro = "FAIL_IF_NULL"
    /\ ret = {NULL}
    /\ pc = "finally"
    /\ stmts = 0

\* ---- C5 ------------------------------------------------------------------
\* C5: FAIL_IF_MINUS_ONE(num) goes to the cleanup label exactly when
\* num = -1; every other status continues past the macro.
C5_FailExactlyOnMinusOne ==
    (prog.macro = "FAIL_IF_MINUS_ONE" /\ (Jumped \/ Continued))
        => (Jumped <=> ret = {0 - 1})

C10_FailureReachesCleanup ==
    (prog.body.kind \in {"throw", "raise"} /\ pc \in {"returned", "unwound"})
        => (pc = "returned" /\ stmts = 0)

====
